---- MODULE Spec2Model ----
(***************************************************************************)
(* Bronson (app/main.py): directory validation, the recursive scan for     *)
(* unwanted files, their removal, and the comparison of the immediate      *)
(* subdirectories of two configured roots.                                 *)
(*                                                                         *)
(* A path is a sequence of component names (<<>> is the filesystem root);  *)
(* its string form is the sequence of its characters, so that the string   *)
(* comparisons of validate_directory are modelled as the string            *)
(* comparisons they are.                                                   *)
(***************************************************************************)
EXTENDS Integers, Sequences, FiniteSets, TLC

VARIABLES
    platform,        \* symlink layout of the host (decides Path.resolve())
    cleanup_dir,     \* CLEANUP_DIRECTORY, as configured (unresolved)
    target_dir,      \* TARGET_DIRECTORY, as configured (unresolved)
    dirs,            \* directories present on the filesystem (resolved paths)
    files,           \* regular files present on the filesystem
    locked,          \* files whose unlink() raises (read-only, permission)
    denied,          \* paths whose listing or stat() raises PermissionError
    verdict,         \* outcome of the last bare validate_directory call
    pc,              \* per request: position in its handler
    op,              \* per request: "scan" | "cleanup" | "compare"
    dry_run,         \* per request: the dry_run flag of cleanup
    patterns,        \* per request: active pattern list
    walk,            \* per request: directories os.walk has still to visit
    pending,         \* per request: files of the current directory to test
    found_files,     \* per request: list of matched paths
    pattern_matches, \* per request: matched path -> pattern
    file_sizes,      \* per request: matched path -> size
    cursor,          \* per request: index into found_files of the removal loop
    removed_files,   \* per request: list of removed paths
    errors,          \* per request: list of per-file removal errors
    result,          \* per request: the response (status and body)
    snapshot,        \* per request: the files present when the call began
    touched,         \* per request: has the call listed, walked or unlinked
    prev             \* the cleanup answered just before the current call, if any

vars == << platform, cleanup_dir, target_dir, dirs, files, locked, denied,
           verdict, pc, op, dry_run, patterns, walk, pending, found_files,
           pattern_matches, file_sizes, cursor, removed_files, errors, result,
           snapshot, touched, prev >>

fsVars == << platform, cleanup_dir, target_dir, dirs, locked, denied >>

None == "None"

\* No response (yet).
NoResult == [ status |-> 0 ]

\* ------------------------------------------------------------------ bounds
\* Longest configured path, in components, that the validator is tried on.
MaxPathLen == 2

\* ------------------------------------------------------------ sequences
Range(s) == { s[i] : i \in 1..Len(s) }

IsPrefix(a, b) == Len(a) <= Len(b) /\ SubSeq(b, 1, Len(a)) = a

RECURSIVE Perms(_)
\* All enumerations of the finite set S as a sequence without repetition.
Perms(S) ==
    IF S = { } THEN { << >> }
    ELSE UNION { { << x >> \o s : s \in Perms(S \ { x }) } : x \in S }

\* --------------------------------------------------------------- paths
Comp == { "home", "usr", "etc", "var", "bin", "sbin", "boot", "root",
          "tmp", "private", "data", "target", "etcx", "w" }

PathsUpTo(n) == UNION { [1..k -> Comp] : k \in 0..n }

\* A string is the sequence of its characters. The characters of the names
\* used in the model's paths and trees; the others are one letter long.
Chars(name) ==
    CASE name = "home"       -> << "h", "o", "m", "e" >>
      [] name = "usr"        -> << "u", "s", "r" >>
      [] name = "etc"        -> << "e", "t", "c" >>
      [] name = "etcx"       -> << "e", "t", "c", "x" >>
      [] name = "var"        -> << "v", "a", "r" >>
      [] name = "bin"        -> << "b", "i", "n" >>
      [] name = "sbin"       -> << "s", "b", "i", "n" >>
      [] name = "boot"       -> << "b", "o", "o", "t" >>
      [] name = "root"       -> << "r", "o", "o", "t" >>
      [] name = "tmp"        -> << "t", "m", "p" >>
      [] name = "private"    -> << "p", "r", "i", "v", "a", "t", "e" >>
      [] name = "data"       -> << "d", "a", "t", "a" >>
      [] name = "target"     -> << "t", "a", "r", "g", "e", "t" >>
      [] name = "missing"    -> << "m", "i", "s", "s", "i", "n", "g" >>
      [] name = "x.tmp"      -> << "x", ".", "t", "m", "p" >>
      [] name = "X.TMP"      -> << "X", ".", "T", "M", "P" >>
      [] name = "xtmp"       -> << "x", "t", "m", "p" >>
      [] name = "d.tmp"      -> << "d", ".", "t", "m", "p" >>
      [] name = "Thumbs.db"  -> << "T", "h", "u", "m", "b", "s", ".", "d", "b" >>
      [] name = "keep.txt"   -> << "k", "e", "e", "p", ".", "t", "x", "t" >>
      [] name = "movieA"     -> << "m", "o", "v", "i", "e", "A" >>
      [] name = "movieB"     -> << "m", "o", "v", "i", "e", "B" >>
      [] name = "movieb"     -> << "m", "o", "v", "i", "e", "b" >>
      [] name = "movieC"     -> << "m", "o", "v", "i", "e", "C" >>
      [] OTHER               -> << name >>

RECURSIVE PathStr(_)
\* str(path): "/" for the root, else "/c1/c2/...", character by character.
PathStr(p) ==
    IF p = << >> THEN << "/" >>
    ELSE IF Len(p) = 1 THEN << "/" >> \o Chars(p[1])
    ELSE PathStr(SubSeq(p, 1, Len(p) - 1)) \o << "/" >> \o Chars(p[Len(p)])

\* str.startswith
startswith(s, prefix) == IsPrefix(prefix, s)

Platforms == { "plain", "usrmerge", "darwin" }

\* Top-level symbolic links of the host: first component -> what it points to.
Links(pf) ==
    CASE pf = "usrmerge" -> [ c \in { "bin", "sbin" } |-> << "usr", c >> ]
      [] pf = "darwin"   -> [ c \in { "tmp", "var", "etc" } |-> << "private", c >> ]
      [] OTHER           -> [ c \in { } |-> << >> ]

\* Path.resolve(): the path with its symbolic links followed.
resolve(pf, p) ==
    IF p # << >> /\ p[1] \in DOMAIN Links(pf)
    THEN Links(pf)[p[1]] \o Tail(p)
    ELSE p

\* Path.exists()
exists(p) == p \in dirs \/ p \in files

critical_dirs ==
    << << >>, << "home" >>, << "usr" >>, << "etc" >>, << "var" >>,
       << "bin" >>, << "sbin" >>, << "boot" >>, << "root" >> >>

allowed_tmp_roots == << << "tmp" >>, << "private", "tmp" >>, << "private", "var" >> >>

allowed_tmp_paths(pf) ==
    [ i \in 1..Len(allowed_tmp_roots) |-> PathStr(resolve(pf, allowed_tmp_roots[i])) ]

HTTP_OK == 200
HTTP_BAD_REQUEST == 400
HTTP_NOT_FOUND == 404
HTTP_ERROR == 500

\* Faulty variant: the separator is not appended before the prefix comparison.
UnderStrNoSeparator(dir_str, base_str) ==
    dir_str = base_str \/ startswith(dir_str, base_str)

\* dir_str == base or dir_str.startswith(base + "/")
UnderStr(dir_str, base_str) ==
    dir_str = base_str \/ startswith(dir_str, base_str \o << "/" >>)

\* Faulty variant: only the existence test is made.
validate_exists_only(pf, directory_path) ==
    IF ~exists(directory_path) THEN HTTP_NOT_FOUND ELSE HTTP_OK

\* validate_directory: the status of the HTTPException it raises, or 200
\* when it returns normally.
validate_directory(pf, directory_path) ==
    IF ~exists(directory_path) THEN HTTP_NOT_FOUND
    ELSE LET dir_str == PathStr(resolve(pf, directory_path))
             tmps    == allowed_tmp_paths(pf)
         IN  IF \E i \in 1..Len(tmps) : UnderStr(dir_str, tmps[i])
             THEN HTTP_OK
             ELSE IF \E i \in 1..Len(critical_dirs) :
                        UnderStr(dir_str, PathStr(resolve(pf, critical_dirs[i])))
                  THEN HTTP_BAD_REQUEST
                  ELSE HTTP_OK

\* ------------------------------------------------------ names and patterns
\* Case folding, as re.IGNORECASE compares characters.
Fold(c) ==
    CASE c = "X" -> "x" [] c = "T" -> "t" [] c = "M" -> "m" [] c = "P" -> "p"
      [] c = "D" -> "d" [] c = "B" -> "b" [] c = "A" -> "a" [] c = "C" -> "c"
      [] OTHER -> c

Lit(c) == [ k |-> "lit", c |-> c ]
AnyChar == [ k |-> "any", c |-> "" ]
EndOfString == [ k |-> "end", c |-> "" ]

\* re.compile: the pattern's elements, or invalid (re.error).  "\\." is an
\* escaped dot (a literal), "." any character, "$" the end of the string.
compile(pattern) ==
    CASE pattern = "\\.tmp$" ->
            [ ok |-> TRUE, elems |-> << Lit("."), Lit("t"), Lit("m"), Lit("p"), EndOfString >> ]
      [] pattern = ".tmp$" ->
            [ ok |-> TRUE, elems |-> << AnyChar, Lit("t"), Lit("m"), Lit("p"), EndOfString >> ]
      [] pattern = "Thumbs\\.db$" ->
            [ ok |-> TRUE, elems |-> << Lit("T"), Lit("h"), Lit("u"), Lit("m"), Lit("b"),
                                        Lit("s"), Lit("."), Lit("d"), Lit("b"), EndOfString >> ]
      [] pattern = "\\.bak$" ->
            [ ok |-> TRUE, elems |-> << Lit("."), Lit("b"), Lit("a"), Lit("k"), EndOfString >> ]
      [] pattern = "tmp" ->
            [ ok |-> TRUE, elems |-> << Lit("t"), Lit("m"), Lit("p") >> ]
      [] OTHER -> [ ok |-> FALSE, elems |-> << >> ]

RECURSIVE match_at(_, _, _)
\* Do the elements match the string from position i on?
match_at(elems, s, i) ==
    IF elems = << >> THEN TRUE
    ELSE LET e == Head(elems)
         IN  CASE e.k = "end" -> i = Len(s) + 1 /\ match_at(Tail(elems), s, i)
               [] e.k = "any" -> i <= Len(s) /\ match_at(Tail(elems), s, i + 1)
               [] OTHER       -> /\ i <= Len(s)
                                 /\ Fold(s[i]) = Fold(e.c)
                                 /\ match_at(Tail(elems), s, i + 1)

\* re.search(pattern, string, re.IGNORECASE) for a pattern that compiles.
re_search(pattern, string) ==
    \E i \in 1..(Len(Chars(string)) + 1) :
        match_at(compile(pattern).elems, Chars(string), i)

\* Faulty variant: the loop keeps going after a match, so the last match is recorded.
RECURSIVE match_loop_last(_, _, _)
match_loop_last(pats, file, i) ==
    IF i > Len(pats) THEN 0
    ELSE IF ~compile(pats[i]).ok THEN -1
    ELSE LET later == match_loop_last(pats, file, i + 1)
         IN  IF later # 0 THEN later
             ELSE IF re_search(pats[i], file) THEN i ELSE 0

RECURSIVE match_loop(_, _, _)
\* The loop `for pattern in patterns` of find_unwanted_files from index i on:
\* the index of the first pattern that matches (the break), 0 when the loop
\* ends without a match, -1 when re.search raises on a pattern it reaches.
match_loop(pats, file, i) ==
    IF i > Len(pats) THEN 0
    ELSE IF ~compile(pats[i]).ok THEN -1
    ELSE IF re_search(pats[i], file) THEN i
    ELSE match_loop(pats, file, i + 1)

\* The built-in list, abridged to its entries that bear on the model's names
\* (order kept).
DEFAULT_UNWANTED_PATTERNS == << "Thumbs\\.db$", "\\.tmp$", "\\.bak$" >>

\* The `patterns` argument: None (the built-in list is used) or a list.
Supplied(list) == [ none |-> FALSE, list |-> list ]

NotSupplied == [ none |-> TRUE, list |-> << >> ]

PatternInputs ==
    { NotSupplied,
      Supplied(<< ".tmp$", "Thumbs\\.db$" >>),
      Supplied(<< ".tmp$", "\\.tmp$" >>),
      Supplied(<< "\\.tmp$", "tmp" >>),
      Supplied(<< "tmp", "(" >>) }

\* ----------------------------------------------------------- filesystem
basename(p) == p[Len(p)]

parent(p) == SubSeq(p, 1, Len(p) - 1)

\* Entries of directory d, as scandir / iterdir see them.
child_files(d) == { f \in files : parent(f) = d }

child_dirs(d) == { x \in dirs : x # << >> /\ parent(x) = d }

\* st_size of a file, by base name.
st_size(f) == Len(Chars(basename(f))) * 100

Procs == { 1, 2 }

\* ------------------------------------------------------ request handlers
\* No cleanup was the call just before.
NoCleanup == [ cleanup |-> FALSE, dry_run |-> FALSE, patterns |-> << >>,
               found |-> { }, removed |-> { } ]

\* What the next call can be compared with: the cleanup that request q has
\* just answered, if that is what it did.
completed(q) ==
    IF pc[q] = "done" /\ op[q] = "cleanup" /\ result[q].status = HTTP_OK
    THEN [ cleanup |-> TRUE, dry_run |-> dry_run[q], patterns |-> patterns[q],
           found |-> Range(result[q].found_files),
           removed |-> Range(result[q].removed_files) ]
    ELSE NoCleanup

\* Lines 377-398 and 501-522: resolve the configured directory, validate it,
\* and either answer 400 "Invalid cleanup directory: ..." or enter the walk.
begin(q, kind, dry, pats) ==
    LET directory_path == resolve(platform, cleanup_dir)
        v == validate_directory(platform, directory_path)
    IN  /\ pc[q] \in { "idle", "done" }
        /\ prev' = completed(q)
        /\ op' = [op EXCEPT ![q] = kind]
        /\ dry_run' = [dry_run EXCEPT ![q] = dry]
        /\ patterns' = [patterns EXCEPT ![q] =
                            IF pats.none THEN DEFAULT_UNWANTED_PATTERNS ELSE pats.list]
        /\ snapshot' = [snapshot EXCEPT ![q] = files]
        /\ touched' = [touched EXCEPT ![q] = FALSE]
        /\ pending' = [pending EXCEPT ![q] = << >>]
        /\ found_files' = [found_files EXCEPT ![q] = << >>]
        /\ pattern_matches' = [pattern_matches EXCEPT ![q] = << >>]
        /\ file_sizes' = [file_sizes EXCEPT ![q] = << >>]
        /\ cursor' = [cursor EXCEPT ![q] = 1]
        /\ removed_files' = [removed_files EXCEPT ![q] = << >>]
        /\ errors' = [errors EXCEPT ![q] = << >>]
        /\ IF v # HTTP_OK
           THEN /\ pc' = [pc EXCEPT ![q] = "done"]
                /\ walk' = [walk EXCEPT ![q] = << >>]
                /\ result' = [result EXCEPT ![q] =
                       [ status |-> HTTP_BAD_REQUEST,
                         detail |-> << "Invalid cleanup directory", v >> ]]
           ELSE /\ pc' = [pc EXCEPT ![q] = "walk"]
                /\ walk' = [walk EXCEPT ![q] = << directory_path >>]
                /\ result' = [result EXCEPT ![q] = NoResult]
        /\ UNCHANGED << fsVars, files, verdict >>

\* GET /api/v1/cleanup/scan
scan_for_unwanted_files(q, pats) == begin(q, "scan", FALSE, pats)

\* POST /api/v1/cleanup/files
cleanup_unwanted_files(q, dry, pats) == begin(q, "cleanup", dry, pats)

\* os.walk (line 232): visit the next directory, top-down.  A directory that
\* cannot be scanned yields nothing.  The order of the entries is the
\* filesystem's.  At the end of the walk find_unwanted_files returns.
walk_step(q) ==
    /\ pc[q] = "walk"
    /\ pending[q] = << >>
    /\ IF walk[q] = << >>
       THEN /\ pc' = [pc EXCEPT ![q] = IF op[q] = "cleanup" THEN "remove" ELSE "respond"]
            /\ UNCHANGED << walk, pending, touched >>
       ELSE LET root == Head(walk[q])
            IN  /\ touched' = [touched EXCEPT ![q] = TRUE]
                /\ IF root \notin dirs \ denied
                   THEN /\ walk' = [walk EXCEPT ![q] = Tail(walk[q])]
                        /\ UNCHANGED pending
                   ELSE \E fs \in Perms(child_files(root)), ds \in Perms(child_dirs(root)) :
                            /\ pending' = [pending EXCEPT ![q] = fs]
                            /\ walk' = [walk EXCEPT ![q] = ds \o Tail(walk[q])]
                /\ UNCHANGED pc
    /\ UNCHANGED << fsVars, files, verdict, op, dry_run, patterns, found_files,
                    pattern_matches, file_sizes, cursor, removed_files, errors,
                    result, snapshot, prev >>

\* Lines 233-257: the body of `for file in files` for one file.
match_step(q) ==
    /\ pc[q] = "walk"
    /\ pending[q] # << >>
    /\ LET file_path == Head(pending[q])
           m == match_loop(patterns[q], basename(file_path), 1)
       IN  /\ pending' = [pending EXCEPT ![q] = Tail(pending[q])]
           /\ IF m = -1
              THEN \* re.error, caught at line 484 / 570
                   /\ pc' = [pc EXCEPT ![q] = "done"]
                   /\ result' = [result EXCEPT ![q] =
                          [ status |-> HTTP_ERROR, detail |-> << "Error during", op[q] >> ]]
                   /\ UNCHANGED << found_files, pattern_matches, file_sizes >>
              ELSE IF m = 0
              THEN UNCHANGED << pc, result, found_files, pattern_matches, file_sizes >>
              ELSE /\ found_files' = [found_files EXCEPT ![q] = Append(@, file_path)]
                   /\ pattern_matches' = [pattern_matches EXCEPT ![q] =
                          (file_path :> patterns[q][m]) @@ @]
                   /\ file_sizes' = [file_sizes EXCEPT ![q] =
                          (file_path :> (IF file_path \in files
                                         THEN st_size(file_path) ELSE 0)) @@ @]
                   /\ UNCHANGED << pc, result >>
    /\ UNCHANGED << fsVars, files, verdict, op, dry_run, patterns, walk, cursor,
                    removed_files, errors, snapshot, touched, prev >>

\* p.unlink() returns normally.
unlink_ok(f) == f \in files /\ f \notin locked

\* Faulty variant: unlink(missing_ok=True), a file already gone counts as removed.
attempt_missing_ok(dry, f) ==
    IF dry THEN "skip" ELSE IF f \notin locked THEN "removed" ELSE "error"

\* Faulty variant: the dry_run flag is not consulted.
attempt_always(dry, f) == IF unlink_ok(f) THEN "removed" ELSE "error"

\* Lines 408-423: what one iteration of the removal loop does with a file.
attempt(dry, f) ==
    IF dry THEN "skip" ELSE IF unlink_ok(f) THEN "removed" ELSE "error"

\* Faulty variant: a failed unlink is not caught per file; it ends the call (line 484).
remove_step_abort(q) ==
    /\ pc[q] = "remove"
    /\ IF cursor[q] > Len(found_files[q])
       THEN /\ pc' = [pc EXCEPT ![q] = "respond"]
            /\ UNCHANGED << files, cursor, removed_files, errors, touched, result >>
       ELSE LET file_path == found_files[q][cursor[q]]
                a == attempt(dry_run[q], file_path)
            IN  /\ cursor' = [cursor EXCEPT ![q] = @ + 1]
                /\ touched' = [touched EXCEPT ![q] = TRUE]
                /\ files' = IF a = "removed" THEN files \ { file_path } ELSE files
                /\ removed_files' = [removed_files EXCEPT ![q] =
                       IF a = "removed" THEN Append(@, file_path) ELSE @]
                /\ UNCHANGED errors
                /\ IF a = "error"
                   THEN /\ pc' = [pc EXCEPT ![q] = "done"]
                        /\ result' = [result EXCEPT ![q] =
                               [ status |-> HTTP_ERROR,
                                 detail |-> << "Error during", op[q] >> ]]
                   ELSE UNCHANGED << pc, result >>
    /\ UNCHANGED << fsVars, verdict, op, dry_run, patterns, walk, pending,
                    found_files, pattern_matches, file_sizes, snapshot, prev >>

\* Faulty variant: the path is appended to removed_files before unlink() is tried.
remove_step_append_first(q) ==
    /\ pc[q] = "remove"
    /\ IF cursor[q] > Len(found_files[q])
       THEN /\ pc' = [pc EXCEPT ![q] = "respond"]
            /\ UNCHANGED << files, cursor, removed_files, errors, touched >>
       ELSE LET file_path == found_files[q][cursor[q]]
                a == attempt(dry_run[q], file_path)
            IN  /\ cursor' = [cursor EXCEPT ![q] = @ + 1]
                /\ touched' = [touched EXCEPT ![q] = TRUE]
                /\ files' = IF a = "removed" THEN files \ { file_path } ELSE files
                /\ removed_files' = [removed_files EXCEPT ![q] =
                       IF a # "skip" THEN Append(@, file_path) ELSE @]
                /\ errors' = [errors EXCEPT ![q] =
                       IF a = "error" THEN Append(@, << "Failed to remove", file_path >>)
                       ELSE @]
                /\ UNCHANGED pc
    /\ UNCHANGED << fsVars, verdict, op, dry_run, patterns, walk, pending,
                    found_files, pattern_matches, file_sizes, result, snapshot, prev >>

\* Lines 404-423: one iteration of `for file_path_str in found_files`, or the
\* end of the loop.
remove_step(q) ==
    /\ pc[q] = "remove"
    /\ IF cursor[q] > Len(found_files[q])
       THEN /\ pc' = [pc EXCEPT ![q] = "respond"]
            /\ UNCHANGED << files, cursor, removed_files, errors, touched >>
       ELSE LET file_path == found_files[q][cursor[q]]
                a == attempt(dry_run[q], file_path)
            IN  /\ cursor' = [cursor EXCEPT ![q] = @ + 1]
                /\ touched' = [touched EXCEPT ![q] = TRUE]
                /\ files' = IF a = "removed" THEN files \ { file_path } ELSE files
                /\ removed_files' = [removed_files EXCEPT ![q] =
                       IF a = "removed" THEN Append(@, file_path) ELSE @]
                /\ errors' = [errors EXCEPT ![q] =
                       IF a = "error" THEN Append(@, << "Failed to remove", file_path >>)
                       ELSE @]
                /\ UNCHANGED pc
    /\ UNCHANGED << fsVars, verdict, op, dry_run, patterns, walk, pending,
                    found_files, pattern_matches, file_sizes, result, snapshot, prev >>

RECURSIVE sum_values(_)
\* sum(file_sizes.values())
sum_values(fn) ==
    IF DOMAIN fn = { } THEN 0
    ELSE LET k == CHOOSE x \in DOMAIN fn : TRUE
         IN  fn[k] + sum_values([ y \in DOMAIN fn \ { k } |-> fn[y] ])

\* Faulty variant: files_found counts the matched files that are still there
\* once the removal loop has run.
cleanup_response_found_after(q) ==
    [ status        |-> HTTP_OK,
      dry_run       |-> dry_run[q],
      patterns_used |-> patterns[q],
      files_found   |-> Len(found_files[q]) - Len(removed_files[q]),
      files_removed |-> Len(removed_files[q]),
      errors        |-> Len(errors[q]),
      found_files   |-> found_files[q],
      removed_files |-> removed_files[q],
      error_details |-> errors[q] ]

\* Lines 472-482: the body cleanup returns.
cleanup_response(q) ==
    [ status        |-> HTTP_OK,
      dry_run       |-> dry_run[q],
      patterns_used |-> patterns[q],
      files_found   |-> Len(found_files[q]),
      files_removed |-> Len(removed_files[q]),
      errors        |-> Len(errors[q]),
      found_files   |-> found_files[q],
      removed_files |-> removed_files[q],
      error_details |-> errors[q] ]

\* Lines 560-568: the body scan returns.
scan_response(q) ==
    [ status           |-> HTTP_OK,
      patterns_used    |-> patterns[q],
      files_found      |-> Len(found_files[q]),
      total_size_bytes |-> sum_values(file_sizes[q]),
      found_files      |-> found_files[q],
      file_sizes       |-> file_sizes[q] ]

\* The handler returns its body.
respond(q) ==
    /\ pc[q] = "respond"
    /\ pc' = [pc EXCEPT ![q] = "done"]
    /\ result' = [result EXCEPT ![q] =
           IF op[q] = "cleanup" THEN cleanup_response(q) ELSE scan_response(q)]
    /\ UNCHANGED << fsVars, files, verdict, op, dry_run, patterns, walk, pending,
                    found_files, pattern_matches, file_sizes, cursor, removed_files,
                    errors, snapshot, touched, prev >>

\* -------------------------------------------------------------- comparison
\* directory_path.iterdir(): the possible enumerations of the directory's
\* entries, or the iteration raising before its first entry (not a directory,
\* missing, permission denied): os.listdir reads the whole directory first.
iterdir(directory_path) ==
    IF directory_path \in dirs \ denied
    THEN { [ raised |-> FALSE, items |-> s ] :
             s \in Perms(child_dirs(directory_path) \cup child_files(directory_path)) }
    ELSE { [ raised |-> TRUE, items |-> << >> ] }

\* Faulty variant: every entry is kept, files too (the is_dir() test dropped).
get_subdirectories_all(listing) ==
    IF listing.raised THEN << >>
    ELSE [ i \in 1..Len(listing.items) |-> basename(listing.items[i]) ]

RECURSIVE collect_until_raise(_, _, _)
\* Lines 277-279: the loop over the entries from the i-th on, subdirectories
\* being the names appended so far. item.is_dir() stats the entry: it raises
\* when the stat is denied, and the except clause (lines 280-281) passes, so
\* the loop ends there with the list as it stands.
collect_until_raise(items, i, subdirectories) ==
    IF i > Len(items) THEN subdirectories
    ELSE IF items[i] \in denied THEN subdirectories
    ELSE IF items[i] \in dirs
         THEN collect_until_raise(items, i + 1,
                                  Append(subdirectories, basename(items[i])))
         ELSE collect_until_raise(items, i + 1, subdirectories)

\* get_subdirectories, given the enumeration iterdir() produced.
get_subdirectories(listing) ==
    IF listing.raised THEN << >>
    ELSE collect_until_raise(listing.items, 1, << >>)

\* Faulty variant: names are compared without regard to case; the cleanup side's
\* spelling is reported.
intersection_nocase(cleanup_subdirs, target_subdirs) ==
    LET lower(name) == [ i \in 1..Len(Chars(name)) |-> Fold(Chars(name)[i]) ]
    IN  Range(cleanup_subdirs) \cap
            { a \in Range(cleanup_subdirs) :
                \E b \in Range(target_subdirs) : lower(a) = lower(b) }

\* set(cleanup_subdirs).intersection(set(target_subdirs))
intersection(cleanup_subdirs, target_subdirs) ==
    Range(cleanup_subdirs) \cap Range(target_subdirs)

\* Lines 623-635: the body compare returns.
compare_response(cleanup_subdirs, target_subdirs, duplicates, verbose) ==
    IF verbose
    THEN [ status |-> HTTP_OK,
           duplicates |-> duplicates,
           duplicate_count |-> Len(duplicates),
           total_cleanup_subdirectories |-> Len(cleanup_subdirs),
           total_target_subdirectories |-> Len(target_subdirs),
           cleanup_subdirectories |-> cleanup_subdirs,
           target_subdirectories |-> target_subdirs ]
    ELSE [ status |-> HTTP_OK,
           duplicates |-> duplicates,
           duplicate_count |-> Len(duplicates),
           total_cleanup_subdirectories |-> Len(cleanup_subdirs),
           total_target_subdirectories |-> Len(target_subdirs) ]

\* Lines 593-637: every response compare can give for the two configured
\* directories (one per enumeration order of the listings and of the set).
\* An HTTPException of validate_directory is re-raised as it is (line 639);
\* get_subdirectories swallows its own errors, so nothing reaches line 642.
compare_outcomes(cdir, tdir, verbose) ==
    LET cleanup_path == resolve(platform, cdir)
        target_path  == resolve(platform, tdir)
        v1 == validate_directory(platform, cleanup_path)
        v2 == validate_directory(platform, target_path)
    IN  IF v1 # HTTP_OK THEN { [ status |-> v1, detail |-> << "validate", cdir >> ] }
        ELSE IF v2 # HTTP_OK THEN { [ status |-> v2, detail |-> << "validate", tdir >> ] }
        ELSE UNION { UNION {
                LET cleanup_subdirs == get_subdirectories(cl)
                    target_subdirs  == get_subdirectories(tl)
                    both == intersection(cleanup_subdirs, target_subdirs)
                IN  { compare_response(cleanup_subdirs, target_subdirs, duplicates, verbose) :
                        duplicates \in Perms(both) }
                : tl \in iterdir(target_path) } : cl \in iterdir(cleanup_path) }

\* GET /api/v1/compare/directories
compare_directories(q, verbose) ==
    /\ pc[q] \in { "idle", "done" }
    /\ prev' = completed(q)
    /\ op' = [op EXCEPT ![q] = "compare"]
    /\ dry_run' = [dry_run EXCEPT ![q] = FALSE]
    /\ patterns' = [patterns EXCEPT ![q] = << >>]
    /\ snapshot' = [snapshot EXCEPT ![q] = files]
    /\ walk' = [walk EXCEPT ![q] = << >>]
    /\ pending' = [pending EXCEPT ![q] = << >>]
    /\ found_files' = [found_files EXCEPT ![q] = << >>]
    /\ pattern_matches' = [pattern_matches EXCEPT ![q] = << >>]
    /\ file_sizes' = [file_sizes EXCEPT ![q] = << >>]
    /\ cursor' = [cursor EXCEPT ![q] = 1]
    /\ removed_files' = [removed_files EXCEPT ![q] = << >>]
    /\ errors' = [errors EXCEPT ![q] = << >>]
    /\ \E r \in compare_outcomes(cleanup_dir, target_dir, verbose) :
          /\ result' = [result EXCEPT ![q] = r]
          /\ touched' = [touched EXCEPT ![q] = (r.status = HTTP_OK)]
    /\ pc' = [pc EXCEPT ![q] = "done"]
    /\ UNCHANGED << fsVars, files, verdict >>

\* ------------------------------------------------------ bare lister calls
\* get_subdirectories(cleanup_path), as compare calls it (line 602), on
\* whatever enumeration iterdir() gives; the list it returns is kept with the
\* enumeration it was computed from.
call_get_subdirectories ==
    /\ pc[1] = "idle"
    /\ \E listing \in iterdir(resolve(platform, cleanup_dir)) :
          result' = [result EXCEPT ![1] =
              [ status         |-> 0,
                listing        |-> listing,
                subdirectories |-> get_subdirectories(listing) ]]
    /\ op' = [op EXCEPT ![1] = "list"]
    /\ pc' = [pc EXCEPT ![1] = "done"]
    /\ touched' = [touched EXCEPT ![1] = TRUE]
    /\ UNCHANGED << fsVars, files, verdict, dry_run, patterns, walk, pending,
                    found_files, pattern_matches, file_sizes, cursor,
                    removed_files, errors, snapshot, prev >>

\* ------------------------------------------------- bare validator calls
\* validate_directory applied to the resolved configured path, as every
\* handler applies it.
validate ==
    /\ verdict = NoResult
    /\ verdict' = [ path   |-> resolve(platform, cleanup_dir),
                    status |-> validate_directory(platform,
                                                  resolve(platform, cleanup_dir)) ]
    /\ UNCHANGED << fsVars, files, pc, op, dry_run, patterns, walk, pending,
                    found_files, pattern_matches, file_sizes, cursor,
                    removed_files, errors, result, snapshot, touched, prev >>

\* ------------------------------------------------------- initial states
Prefixes(p) == { SubSeq(p, 1, k) : k \in 0..Len(p) }

\* No request has been received.
Quiet ==
    /\ verdict = NoResult
    /\ pc = [q \in Procs |-> "idle"]
    /\ op = [q \in Procs |-> None]
    /\ dry_run = [q \in Procs |-> FALSE]
    /\ patterns = [q \in Procs |-> << >>]
    /\ walk = [q \in Procs |-> << >>]
    /\ pending = [q \in Procs |-> << >>]
    /\ found_files = [q \in Procs |-> << >>]
    /\ pattern_matches = [q \in Procs |-> << >>]
    /\ file_sizes = [q \in Procs |-> << >>]
    /\ cursor = [q \in Procs |-> 1]
    /\ removed_files = [q \in Procs |-> << >>]
    /\ errors = [q \in Procs |-> << >>]
    /\ result = [q \in Procs |-> NoResult]
    /\ snapshot = [q \in Procs |-> { }]
    /\ touched = [q \in Procs |-> FALSE]
    /\ prev = NoCleanup

\* The tree the scans run on, relative to the configured root: directories
\* (one of them named like an unwanted file) and the files that may be there.
TreeDirs == { << >>, << "a" >>, << "a", "b" >>, << "d.tmp" >> }

TreeFiles == { << "x.tmp" >>, << "a", "X.TMP" >>, << "a", "keep.txt" >>,
               << "a", "b", "Thumbs.db" >>, << "d.tmp", "xtmp" >> }

MayBeAbsent == { << "a", "X.TMP" >>, << "a", "b", "Thumbs.db" >> }

MayBeLocked == { << "x.tmp" >>, << "a", "X.TMP" >> }

ScanRoots == { << "data" >>, << "etc" >>, << "tmp", "w" >> }

\* A host whose configured cleanup directory, when it exists, holds the tree.
InitScan ==
    /\ platform = "plain"
    /\ cleanup_dir \in ScanRoots
    /\ target_dir \in { << "target" >>, << "boot" >> }
    /\ \E present \in BOOLEAN, F \in { TreeFiles \ S : S \in SUBSET MayBeAbsent } \cup { { } } :
          LET root == resolve(platform, cleanup_dir)
          IN  IF present
              THEN /\ dirs = Prefixes(root) \cup { root \o d : d \in TreeDirs }
                             \cup { << "target" >>, << "target", "a" >>, << "boot" >> }
                   /\ files = { root \o f : f \in F }
                   /\ \E L \in SUBSET (F \cap MayBeLocked) :
                         locked = { root \o f : f \in L }
              ELSE /\ F = { }
                   /\ dirs = { << >>, << "target" >>, << "target", "a" >>, << "boot" >> }
                   /\ files = { }
                   /\ locked = { }
    /\ denied = { }
    /\ Quiet

\* One client, one request at a time.
Next ==
    \/ \E pats \in PatternInputs : scan_for_unwanted_files(1, pats)
    \/ \E dry \in BOOLEAN, pats \in PatternInputs : cleanup_unwanted_files(1, dry, pats)
    \/ \E verbose \in BOOLEAN : compare_directories(1, verbose)
    \/ walk_step(1)
    \/ match_step(1)
    \/ remove_step(1)
    \/ respond(1)

Spec == InitScan /\ [][Next]_vars

\* Any configured path, present or absent, on any host.
InitValidate ==
    /\ platform \in Platforms
    /\ cleanup_dir \in PathsUpTo(MaxPathLen)
    /\ target_dir = << "target" >>
    /\ dirs \in { { << >> }, Prefixes(resolve(platform, cleanup_dir)) }
    /\ files = { }
    /\ locked = { }
    /\ denied = { }
    /\ Quiet

NextValidate == validate

SpecValidate == InitValidate /\ [][NextValidate]_vars

\* Two requests in flight against the same root.
RaceFiles == { << "x.tmp" >>, << "a", "X.TMP" >>, << "a", "b", "Thumbs.db" >> }

RacePatternInputs == { NotSupplied, Supplied(<< ".tmp$", "Thumbs\\.db$" >>) }

InitRace ==
    /\ platform = "plain"
    /\ cleanup_dir = << "data" >>
    /\ target_dir = << "target" >>
    /\ dirs = Prefixes(cleanup_dir) \cup { cleanup_dir \o d : d \in TreeDirs }
    /\ \E F \in SUBSET RaceFiles :
          /\ files = { cleanup_dir \o f : f \in F }
          /\ \E L \in SUBSET (F \cap { << "x.tmp" >> }) :
                locked = { cleanup_dir \o f : f \in L }
    /\ denied = { }
    /\ Quiet

\* A request arrives while another may be running.
concurrent_cleanup(q, pats) ==
    /\ pc[q] = "idle"
    /\ cleanup_unwanted_files(q, FALSE, pats)

NextRace ==
    \E q \in Procs :
        \/ \E pats \in RacePatternInputs : concurrent_cleanup(q, pats)
        \/ walk_step(q)
        \/ match_step(q)
        \/ remove_step(q)
        \/ respond(q)

SpecRace == InitRace /\ [][NextRace]_vars

\* Two roots with immediate subdirectories, a nested directory and a plain
\* file that carry names found on the other side.
CleanupSideNames == { "movieA", "movieB", "movieb" }

TargetSideNames == { "movieB", "movieC", "movieb" }

CompareRoots == { << "data" >>, << "target" >>, << "etc" >>, << "missing" >>,
                  << "data", "movieC" >> }

InitCompare ==
    /\ platform = "plain"
    /\ cleanup_dir \in CompareRoots
    /\ target_dir \in CompareRoots
    /\ \E A \in SUBSET CleanupSideNames, B \in SUBSET TargetSideNames :
          dirs = { << >>, << "data" >>, << "target" >>, << "etc" >>, << "etc", "movieB" >> }
                 \cup { << "data", n >> : n \in A }
                 \cup { << "target", n >> : n \in B }
                 \cup { << "data", n, "movieC" >> : n \in A \cap { "movieA" } }
    /\ files = { << "data", "movieC" >> }
    /\ locked = { }
    /\ denied = { }
    /\ Quiet

\* One comparison of the two configured roots.
compare_once(verbose) ==
    /\ pc[1] = "idle"
    /\ compare_directories(1, verbose)

NextCompare == \E verbose \in BOOLEAN : compare_once(verbose)

SpecCompare == InitCompare /\ [][NextCompare]_vars

\* A root, present or missing, readable or not, holding up to two directories
\* and one entry that is not a directory; the stat of any entry may be denied
\* (a link into a directory the process may not search).
ListerRoots == { << "data" >>, << "missing" >> }

ListerDirNames == { "movieA", "movieB" }

InitLister ==
    /\ platform = "plain"
    /\ cleanup_dir \in ListerRoots
    /\ target_dir = << "target" >>
    /\ \E A \in SUBSET ListerDirNames :
          dirs = { << >>, << "data" >>, << "target" >> } \cup { << "data", n >> : n \in A }
    /\ files \in SUBSET { << "data", "movieC" >> }
    /\ locked = { }
    /\ denied \in SUBSET ((dirs \cup files) \ { << >>, << "target" >> })
    /\ Quiet

NextLister == call_get_subdirectories

SpecLister == InitLister /\ [][NextLister]_vars

\* ======================================================== properties
\* The lists as the specification words them, on path components.
DenyList == { << >>, << "home" >>, << "usr" >>, << "etc" >>, << "var" >>,
              << "bin" >>, << "sbin" >>, << "boot" >>, << "root" >> }

AllowList == { << "tmp" >>, << "private", "tmp" >>, << "private", "var" >> }

\* p equals or lies under an allowlisted prefix of this host.
Allowlisted(pf, p) == \E a \in AllowList : IsPrefix(resolve(pf, a), p)

\* Protected, with the filesystem root protected as a path of its own only.
Protected(pf, p) ==
    /\ ~Allowlisted(pf, p)
    /\ \/ p = << >>
       \/ \E d \in DenyList \ { << >> } : IsPrefix(resolve(pf, d), p)

\* A configured root the validator must refuse.
RootBad(d) ==
    LET p == resolve(platform, d)
    IN  ~exists(p) \/ Protected(platform, p)

Validated == verdict.status # 0

\* C1, as claimed: an existing resolved path is refused with ProtectedPath
\* exactly when it is not under an allowlisted prefix and equals or lies under
\* some denylist entry, the filesystem root included (so every path that is
\* not allowlisted is refused).
C1_AsClaimed ==
    (Validated /\ exists(verdict.path)) =>
        (verdict.status = HTTP_BAD_REQUEST
            <=> /\ ~(\E a \in AllowList : IsPrefix(a, verdict.path))
                /\ \E d \in DenyList : IsPrefix(d, verdict.path))

\* C1, amended: an existing resolved path is refused with ProtectedPath exactly
\* when it is not under an allowlisted prefix and either is the filesystem root
\* itself or equals or lies under one of the other denylist entries (entries
\* taken as they resolve on the host); every other existing path is accepted,
\* and a path that does not exist is refused as not found.
C1_ProtectedExactly ==
    Validated =>
        /\ exists(verdict.path) =>
              /\ verdict.status \in { HTTP_OK, HTTP_BAD_REQUEST }
              /\ verdict.status = HTTP_BAD_REQUEST <=> Protected(platform, verdict.path)
        /\ ~exists(verdict.path) => verdict.status = HTTP_NOT_FOUND

\* C1 witness: a descendant of /etc was validated and refused.
C1_Witness ==
    /\ Validated
    /\ verdict.path = << "etc", "w" >>
    /\ exists(verdict.path)
    /\ verdict.status = HTTP_BAD_REQUEST

\* C2: a call whose root (for compare, either root) is missing or protected
\* ends in an error that carries no result record, without having walked,
\* listed or unlinked anything and with every file still in place, whatever
\* dry_run says.
C2_ValidationFirst ==
    \A q \in Procs :
        (pc[q] # "idle" /\ (RootBad(cleanup_dir) \/ (op[q] = "compare" /\ RootBad(target_dir))))
        => /\ pc[q] = "done"
           /\ result[q].status \in { HTTP_BAD_REQUEST, HTTP_NOT_FOUND }
           /\ DOMAIN result[q] = { "status", "detail" }
           /\ ~touched[q]
           /\ files = snapshot[q]
           /\ found_files[q] = << >>
           /\ removed_files[q] = << >>

\* C2 witness: a real (not dry-run) cleanup of a protected root that holds
\* removable unwanted files was refused.
C2_Witness ==
    /\ pc[1] = "done"
    /\ op[1] = "cleanup"
    /\ ~dry_run[1]
    /\ cleanup_dir = << "etc" >>
    /\ << "etc", "x.tmp" >> \in files \ locked
    /\ result[1].status = HTTP_BAD_REQUEST

\* C3: a dry-run cleanup leaves the set of files as it found it, reports
\* files_removed = 0 and no removed file, and the scan that follows it with the
\* same patterns finds the same set the dry run reported.
C3_DryRunPure ==
    \A q \in Procs :
        /\ (op[q] = "cleanup" /\ dry_run[q]) =>
              /\ files = snapshot[q]
              /\ removed_files[q] = << >>
              /\ (pc[q] = "done" /\ result[q].status = HTTP_OK) =>
                    /\ result[q].files_removed = 0
                    /\ result[q].removed_files = << >>
                    /\ result[q].files_found = Len(result[q].found_files)
        /\ ( /\ op[q] = "scan" /\ pc[q] = "done" /\ result[q].status = HTTP_OK
             /\ prev.cleanup /\ prev.dry_run /\ prev.patterns = patterns[q] )
           => Range(result[q].found_files) = prev.found

\* C3 witness: a scan has answered right after a dry run that reported files.
C3_Witness ==
    /\ op[1] = "scan" /\ pc[1] = "done" /\ result[1].status = HTTP_OK
    /\ prev.cleanup /\ prev.dry_run /\ prev.patterns = patterns[1]
    /\ Cardinality(prev.found) >= 2

ErrorPaths(details) == { details[i][2] : i \in 1..Len(details) }

\* C4: in a real cleanup every matched file is attempted; the removable ones
\* are removed, each failing one is in error_details and not in removed_files,
\* and the call answers normally: a call that ends in an error has attempted
\* no removal at all.
C4_FailuresAreLocal ==
    \A q \in Procs :
        (op[q] = "cleanup" /\ ~dry_run[q] /\ pc[q] = "done") =>
            IF result[q].status = HTTP_OK
            THEN \A f \in Range(result[q].found_files) :
                    IF f \in snapshot[q] \ locked
                    THEN /\ f \in Range(result[q].removed_files)
                         /\ f \notin files
                         /\ f \notin ErrorPaths(result[q].error_details)
                    ELSE /\ f \notin Range(result[q].removed_files)
                         /\ f \in ErrorPaths(result[q].error_details)
            ELSE /\ removed_files[q] = << >>
                 /\ errors[q] = << >>
                 /\ files = snapshot[q]

\* C4 witness: a file that could not be removed came before one that was.
C4_Witness ==
    /\ op[1] = "cleanup" /\ ~dry_run[1] /\ pc[1] = "done"
    /\ result[1].status = HTTP_OK
    /\ \E i, j \in 1..Len(found_files[1]) :
          /\ i < j
          /\ found_files[1][i] \in ErrorPaths(result[1].error_details)
          /\ found_files[1][j] \in Range(result[1].removed_files)

\* The pattern compiles and is found in the base name.
Matches(pattern, name) == compile(pattern).ok /\ re_search(pattern, name)

\* The files at any depth under the configured cleanup root.
UnderRoot == { f \in files : IsPrefix(resolve(platform, cleanup_dir), f) }

\* C5: a scan that answers reports every file under the root whose base name
\* matches some pattern exactly once, with the first pattern of the list that
\* matches it recorded; it reports nothing else: no file that matches no
\* pattern and no directory.
C5_FirstMatchOnce ==
    \A q \in Procs :
        (op[q] = "scan" /\ pc[q] = "done" /\ result[q].status = HTTP_OK) =>
            LET found == result[q].found_files
                pats  == patterns[q]
                hits(f) == { i \in 1..Len(pats) : Matches(pats[i], basename(f)) }
            IN  /\ \A f \in UnderRoot :
                      hits(f) # { } =>
                          /\ Cardinality({ i \in 1..Len(found) : found[i] = f }) = 1
                          /\ \E i \in hits(f) :
                                /\ \A j \in hits(f) : i <= j
                                /\ pattern_matches[q][f] = pats[i]
                /\ \A i \in 1..Len(found) :
                      /\ found[i] \in UnderRoot
                      /\ found[i] \notin dirs
                      /\ hits(found[i]) # { }
                /\ DOMAIN pattern_matches[q] = Range(found)
                /\ result[q].files_found = Len(found)

\* C5 witness: a scan answered where a file matched two patterns of the list,
\* a file matched none, and a directory bore a matching name.
C5_Witness ==
    /\ op[1] = "scan" /\ pc[1] = "done" /\ result[1].status = HTTP_OK
    /\ patterns[1] = << ".tmp$", "\\.tmp$" >>
    /\ \E f \in Range(found_files[1]) : basename(f) = "X.TMP"
    /\ \E f \in UnderRoot : basename(f) = "keep.txt"
    /\ \E d \in dirs : d # << >> /\ basename(d) = "d.tmp"

\* C6: once a real cleanup has answered, no path of removed_files exists, and
\* the scan that follows it with the same patterns reports none of them.
C6_RemovedAreGone ==
    \A q \in Procs :
        /\ (op[q] = "cleanup" /\ ~dry_run[q] /\ pc[q] = "done" /\ result[q].status = HTTP_OK)
           => \A f \in Range(result[q].removed_files) : f \notin files
        /\ ( /\ op[q] = "scan" /\ pc[q] = "done" /\ result[q].status = HTTP_OK
             /\ prev.cleanup /\ ~prev.dry_run /\ prev.patterns = patterns[q] )
           => Range(result[q].found_files) \cap prev.removed = { }

\* C6 witness: a scan answered after a cleanup that removed some files and
\* failed on another, which the scan still reports.
C6_Witness ==
    /\ op[1] = "scan" /\ pc[1] = "done" /\ result[1].status = HTTP_OK
    /\ prev.cleanup /\ ~prev.dry_run /\ prev.patterns = patterns[1]
    /\ prev.removed # { }
    /\ result[1].found_files # << >>

\* C7, as claimed: in scan, cleanup and compare alike a missing root is
\* answered with the not-found classification, a protected root with the
\* protected one and a failure during the traversal with the internal-error
\* one.
C7_DistinctClassification ==
    \A q \in Procs :
        pc[q] = "done" =>
            LET p == resolve(platform, cleanup_dir)
            IN  /\ ~exists(p) => result[q].status = HTTP_NOT_FOUND
                /\ (exists(p) /\ Protected(platform, p))
                      => result[q].status = HTTP_BAD_REQUEST
                /\ result[q].status = HTTP_ERROR => ~RootBad(cleanup_dir)

Other(q) == IF q = 1 THEN 2 ELSE 1

\* C8: with two real cleanups racing on one root, no file is in removed_files
\* of both; a request whose turn at a file comes after the other removed it
\* records a per-file error for it; and each request answers normally with
\* every matched file either removed or in error_details.
C8_RaceIsBenign ==
    /\ Range(removed_files[1]) \cap Range(removed_files[2]) = { }
    /\ \A q \in Procs :
          /\ \A i \in 1..Len(found_files[q]) :
                (i < cursor[q] /\ found_files[q][i] \in Range(removed_files[Other(q)]))
                    => found_files[q][i] \in ErrorPaths(errors[q])
          /\ pc[q] = "done" =>
                /\ result[q].status = HTTP_OK
                /\ Range(result[q].found_files)
                     = Range(result[q].removed_files) \cup ErrorPaths(result[q].error_details)
                /\ Range(result[q].removed_files) \cap ErrorPaths(result[q].error_details) = { }
                /\ \A f \in Range(result[q].removed_files) : f \notin files

\* C8 witness: both requests answered, and a file both had matched was removed
\* by one and is a per-file error of the other.
C8_Witness ==
    /\ pc[1] = "done" /\ pc[2] = "done"
    /\ \E f \in Range(found_files[1]) \cap Range(found_files[2]) :
          /\ f \in Range(result[1].removed_files)
          /\ f \in ErrorPaths(result[2].error_details)
    /\ result[2].removed_files # << >>

\* The names of the immediate child directories of a configured root.
ChildNames(d) == { basename(x) : x \in child_dirs(resolve(platform, d)) }

\* C9: when compare answers for roots (A, B), compare for (B, A) on the same
\* filesystem answers too, with the same duplicates as a set.
C9_Symmetric ==
    (op[1] = "compare" /\ pc[1] = "done" /\ result[1].status = HTTP_OK) =>
        \A r \in compare_outcomes(target_dir, cleanup_dir, FALSE) :
            /\ r.status = HTTP_OK
            /\ Range(r.duplicates) = Range(result[1].duplicates)

\* C9 witness: two different roots with different children and a shared name.
C9_Witness ==
    /\ op[1] = "compare" /\ pc[1] = "done" /\ result[1].status = HTTP_OK
    /\ cleanup_dir # target_dir
    /\ ChildNames(cleanup_dir) # ChildNames(target_dir)
    /\ result[1].duplicates # << >>

\* C10: the duplicates compare answers are exactly the names that are
\* immediate child directories of both roots, compared as exact strings, each
\* listed once; duplicate_count is their number and the two totals are the
\* numbers of immediate child directories of each root.
C10_ExactIntersection ==
    (op[1] = "compare" /\ pc[1] = "done" /\ result[1].status = HTTP_OK) =>
        LET r == result[1]
            both == ChildNames(cleanup_dir) \cap ChildNames(target_dir)
        IN  /\ Range(r.duplicates) = both
            /\ Len(r.duplicates) = Cardinality(both)
            /\ r.duplicate_count = Cardinality(both)
            /\ r.total_cleanup_subdirectories = Cardinality(ChildNames(cleanup_dir))
            /\ r.total_target_subdirectories = Cardinality(ChildNames(target_dir))

\* C10 witness: {movieA, movieB} against {movieB, movieC} gave {movieB}, 2 and
\* 2, with a nested directory and a plain file named movieC on the cleanup side.
C10_Witness ==
    /\ op[1] = "compare" /\ pc[1] = "done" /\ result[1].status = HTTP_OK
    /\ cleanup_dir = << "data" >> /\ target_dir = << "target" >>
    /\ ChildNames(cleanup_dir) = { "movieA", "movieB" }
    /\ ChildNames(target_dir) = { "movieB", "movieC" }
    /\ << "data", "movieC" >> \in files
    /\ << "data", "movieA", "movieC" >> \in dirs
    /\ result[1].duplicates = << "movieB" >>
    /\ result[1].total_cleanup_subdirectories = 2
    /\ result[1].total_target_subdirectories = 2

\* A listing has been made and its list returned.
Listed == pc[1] = "done" /\ op[1] = "list"

\* A read raised while the root was listed: the listing itself, or the stat of
\* one of its entries.
ReadError(listing) ==
    \/ listing.raised
    \/ \E i \in 1..Len(listing.items) : listing.items[i] \in denied

\* C11: whenever a read error occurs while the root is listed (missing
\* directory, permission denied, a failure part-way through the enumeration),
\* get_subdirectories returns the empty list, never the names seen before
\* the error.
C11_EmptyOnAnyReadError ==
    Listed /\ ReadError(result[1].listing) => result[1].subdirectories = << >>

\* The number of positions of the list at which x stands.
Occurrences(list, x) == Cardinality({ i \in 1..Len(list) : list[i] = x })

\* C12: every successful cleanup result keeps the accounts: removed_files is
\* part of found_files and repeats no path; when dry_run is false every found
\* file stands exactly once in removed_files or in error_details, so that
\* files_found = files_removed + errors; when dry_run is true files_removed
\* and errors are 0; and files_found is the number of matching files that
\* were under the root when the call began, whether they could be removed
\* or not.
C12_Accounting ==
    \A q \in Procs :
        (op[q] = "cleanup" /\ pc[q] = "done" /\ result[q].status = HTTP_OK) =>
            LET r == result[q]
                root == resolve(platform, cleanup_dir)
                matching == { f \in snapshot[q] :
                                /\ IsPrefix(root, f)
                                /\ \E i \in 1..Len(r.patterns_used) :
                                      Matches(r.patterns_used[i], basename(f)) }
            IN  /\ Range(r.removed_files) \subseteq Range(r.found_files)
                /\ \A f \in Range(r.removed_files) : Occurrences(r.removed_files, f) = 1
                /\ r.files_found = Len(r.found_files)
                /\ r.files_removed = Len(r.removed_files)
                /\ r.errors = Len(r.error_details)
                /\ r.files_found = Cardinality(matching)
                /\ IF r.dry_run
                   THEN /\ r.files_removed = 0
                        /\ r.errors = 0
                   ELSE /\ r.files_found = r.files_removed + r.errors
                        /\ \A f \in Range(r.found_files) :
                              /\ Occurrences(r.found_files, f) = 1
                              /\ Occurrences(r.removed_files, f)
                                   + Occurrences(r.error_details, << "Failed to remove", f >>) = 1

\* C12 witness: a real cleanup answered with some files removed and some
\* failed, the two counts adding up to more than either.
C12_Witness ==
    /\ op[1] = "cleanup" /\ pc[1] = "done" /\ result[1].status = HTTP_OK
    /\ ~result[1].dry_run
    /\ result[1].files_removed >= 1
    /\ result[1].errors >= 1
    /\ result[1].files_found >= 3
====
